---- MODULE Spec2Model ----
(***************************************************************************)
(* Model of chipset/em9301/btstack_chipset_em9301.c: the EM9304 patch      *)
(* container upload (chipset_init, chipset_next_command) and the nibble    *)
(* table CRC-32 (btstack_crc32), and the command builders                  *)
(* chipset_set_baudrate_command and chipset_set_bd_addr_command.           *)
(*                                                                         *)
(* A uint32_t is a pair <<hi, lo>> of 16-bit halves, so that the C         *)
(* arithmetic modulo 2^32 is kept (TLC's integers stop below 2^31).        *)
(* A uint16_t and a uint8_t are plain naturals reduced % 2^16 and % 2^8.   *)
(***************************************************************************)
EXTENDS Integers, Sequences, FiniteSets, TLC

VARIABLES
    container_blob_data,     \* the patch blob, a sequence of bytes
    container_blob_size,     \* its length, uint32_t
    mem_beyond,              \* the byte a read past the end of the blob finds
    container_blob_offset,   \* uint32_t cursor into the blob
    container_end,           \* uint32_t end of the current container
    patch_sequence_number,   \* uint16_t
    em_cpu_reset_sent,       \* int, 0 or 1
    upload_state,            \* "UPLOAD_IDLE" or "UPLOAD_ACTIVE"
    hci_cmd_buffer,          \* the caller's command buffer, a sequence of bytes
    result,                  \* value returned by the last chipset_next_command
    trace,                   \* the calls of the current run, oldest first
    fresh,                   \* the results and commands of the calls of the first run
    crc_buf,                 \* input of the last btstack_crc32 call
    crc_out,                 \* its return value
    baudrate,                \* argument of the last chipset_set_baudrate_command
    cmd_before               \* the command buffer as the last builder call found it

vars == <<container_blob_data, container_blob_size, mem_beyond,
          container_blob_offset, container_end, patch_sequence_number,
          em_cpu_reset_sent, upload_state, hci_cmd_buffer, result, trace,
          fresh, crc_buf, crc_out, baudrate, cmd_before>>

uploadVars == <<container_blob_data, container_blob_size, mem_beyond,
                container_blob_offset, container_end, patch_sequence_number,
                em_cpu_reset_sent, upload_state, hci_cmd_buffer, result, trace,
                fresh>>

crcVars == <<crc_buf, crc_out>>

baudVars == <<baudrate, cmd_before>>

(***************************************************************************)
(* Bounds of the model.                                                    *)
(***************************************************************************)
\* calls recorded in trace; later calls of the same run are not recorded
MaxTrace == 9
\* a container of the blob family spans at most this many full Continue frames
MaxFull == 1
\* bytes of the caller's command buffer
CmdBufferLen == 68
\* longest byte string over CrcBytes given to btstack_crc32
MaxCrcLen == 3

(***************************************************************************)
(* uint32_t arithmetic on <<hi, lo>>.                                      *)
(***************************************************************************)
W16 == 65536

U32(n) == <<n \div W16, n % W16>>

Add32(a, b) ==
    LET lo == a[2] + b[2]
        hi == a[1] + b[1] + (lo \div W16)
    IN  <<(hi % W16), (lo % W16)>>

Sub32(a, b) ==
    LET lo == a[2] - b[2]
        borrow == IF lo < 0 THEN 1 ELSE 0
        hi == a[1] - b[1] - borrow
    IN  <<(hi + W16) % W16, (lo + W16) % W16>>

Lt32(a, b) == a[1] < b[1] \/ (a[1] = b[1] /\ a[2] < b[2])

Le32(a, b) == ~Lt32(b, a)

\* (uint16_t) x
Trunc16(a) == a[2]

\* bit k of a
Bit(a, k) == (a \div (2 ^ k)) % 2

\* a ^ b on 4-bit values
XorNibble ==
    [a \in 0..15, b \in 0..15 |->
        ((Bit(a, 0) + Bit(b, 0)) % 2)
        + (2 * ((Bit(a, 1) + Bit(b, 1)) % 2))
        + (4 * ((Bit(a, 2) + Bit(b, 2)) % 2))
        + (8 * ((Bit(a, 3) + Bit(b, 3)) % 2))]

Xor16(a, b) ==
    XorNibble[a % 16, b % 16]
    + (16 * XorNibble[(a \div 16) % 16, (b \div 16) % 16])
    + (256 * XorNibble[(a \div 256) % 16, (b \div 256) % 16])
    + (4096 * XorNibble[a \div 4096, b \div 4096])

Xor32(a, b) == <<Xor16(a[1], b[1]), Xor16(a[2], b[2])>>

\* a >> 4
Shr4(a) == <<a[1] \div 16, (a[2] \div 16) + (4096 * (a[1] % 16))>>

\* ~a
Not32(a) == <<65535 - a[1], 65535 - a[2]>>

(***************************************************************************)
(* btstack_crc32                                                           *)
(***************************************************************************)
crc32_table_swapped ==
    << <<\h0000, \h0000>>, <<\h1db7, \h1064>>, <<\h3b6e, \h20c8>>, <<\h26d9, \h30ac>>,
       <<\h76dc, \h4190>>, <<\h6b6b, \h51f4>>, <<\h4db2, \h6158>>, <<\h5005, \h713c>>,
       <<\hedb8, \h8320>>, <<\hf00f, \h9344>>, <<\hd6d6, \ha3e8>>, <<\hcb61, \hb38c>>,
       <<\h9b64, \hc2b0>>, <<\ha00a, \he278>>, <<\h86d3, \hd2d4>>, <<\hbdbd, \hf21c>> >>

crc32_table ==
    << <<\h0000, \h0000>>, <<\h1db7, \h1064>>, <<\h3b6e, \h20c8>>, <<\h26d9, \h30ac>>,
       <<\h76dc, \h4190>>, <<\h6b6b, \h51f4>>, <<\h4db2, \h6158>>, <<\h5005, \h713c>>,
       <<\hedb8, \h8320>>, <<\hf00f, \h9344>>, <<\hd6d6, \ha3e8>>, <<\hcb61, \hb38c>>,
       <<\h9b64, \hc2b0>>, <<\h86d3, \hd2d4>>, <<\ha00a, \he278>>, <<\hbdbd, \hf21c>> >>

UInt32 == (0..65535) \X (0..65535)

\* crc32 = (crc32 >> 4) ^ crc32_table[(crc32 & 0x0F) ^ nibble]
crc32_nibble ==
    [crc32 \in UInt32, nibble \in 0..15 |->
        Xor32(Shr4(crc32), crc32_table[XorNibble[crc32[2] % 16, nibble] + 1])]

\* one pass of the for loop: low nibble of b, then high nibble
crc32_byte ==
    [crc32 \in UInt32, b \in 0..255 |->
        crc32_nibble[crc32_nibble[crc32, b % 16], b \div 16]]

\* the register after the passes pos = lo .. hi - 1 of the for loop, entered
\* with crc32; the passes run in order, the range is halved only to keep
\* the evaluation shallow
crc32_loop(buf, size) ==
    LET passes[lo \in 0..size, hi \in 0..size, crc32 \in UInt32] ==
            IF hi <= lo THEN crc32
            ELSE IF hi = lo + 1 THEN crc32_byte[crc32, buf[hi]]
            ELSE passes[(lo + hi) \div 2, hi, passes[lo, (lo + hi) \div 2, crc32]]
    IN  passes[0, size, <<\hffff, \hffff>>]

\* the loop on a buffer and a size given by value
crc32_run == [buf \in Seq(0..255), size \in 0..65535 |-> crc32_loop(buf, size)]

\* buf holds the bytes buf[0 .. size) of the C call as buf[1 .. size]
btstack_crc32(buf, size) == Not32(crc32_run[buf, size])

(***************************************************************************)
(* Byte order helpers of btstack_util and the blob memory.                 *)
(***************************************************************************)
\* the two bytes little_endian_store_16 writes
LE16(v) == <<(v % 256), (v \div 256)>>

\* the four bytes little_endian_store_32 writes
LE32(a) == <<(a[2] % 256), (a[2] \div 256), (a[1] % 256), (a[1] \div 256)>>

btstack_min(a, b) == IF Lt32(a, b) THEN a ELSE b

\* a uint32_t used as an array index
Index(a) == (a[1] * W16) + a[2]

\* container_blob_data[i]; past the end of the array the read is out of
\* bounds and finds whatever the memory behind the blob holds
BlobByte(i) ==
    IF i < Len(container_blob_data) THEN container_blob_data[i + 1] ELSE mem_beyond

\* little_endian_read_32(container_blob_data, pos)
little_endian_read_32(pos) ==
    <<BlobByte(pos + 2) + (256 * BlobByte(pos + 3)),
      BlobByte(pos) + (256 * BlobByte(pos + 1))>>

\* the n bytes at &container_blob_data[pos]
BlobBytes(pos, n) == [i \in 1..n |-> BlobByte(pos + i - 1)]

\* buffer with bytes written at buffer[pos], buffer[pos + 1], ...
Store(buffer, pos, bytes) ==
    [i \in 1..Len(buffer) |->
        IF i - 1 >= pos /\ i - 1 < pos + Len(bytes) THEN bytes[i - pos] ELSE buffer[i]]

(***************************************************************************)
(* Program constants.                                                      *)
(***************************************************************************)
HCI_OPCODE_EM_WRITE_PATCH_START == \hFC27
HCI_OPCODE_EM_WRITE_PATCH_CONTINUE == \hFC28
HCI_OPCODE_EM_CPU_RESET == \hFC32
\* 0x656d3933, 'em93'
EM_TAG == <<\h656d, \h3933>>
\* data bytes of a Start frame and of a Continue frame
StartMax == 59
ContinueMax == 58

(***************************************************************************)
(* The blobs of the model: chains of well-formed containers, and chains    *)
(* that end in a malformed piece.                                          *)
(***************************************************************************)
\* payload byte number i (from 1) of a container
PayloadByte(i) == (17 + (i * 37)) % 256

\* the first n bytes of: tag, total size, payload
Container(tag, size, n) ==
    [i \in 1..n |->
        IF i <= 4 THEN LE32(tag)[i]
        ELSE IF i <= 8 THEN LE32(size)[i - 4]
        ELSE PayloadByte(i - 8)]

WellFormed(t) == Container(EM_TAG, U32(t), t)

\* header only; exactly one Start frame; Start and k full or k full + 1 Continue
ContainerSizes ==
    {8} \cup {StartMax + (ContinueMax * k) + d : k \in 0..MaxFull, d \in {0, 1}}

Chain1 == {WellFormed(t) : t \in ContainerSizes}

Chain2 == {a \o b : a \in Chain1, b \in Chain1}

\* a tag with one bit flipped
BAD_TAG == <<\h656d, \h3932>>

BadPieces ==
    { Container(BAD_TAG, U32(8), 8),                 \* wrong tag
      Container(EM_TAG, U32(0), 8),                  \* total size 0
      Container(EM_TAG, U32(3), 8),                  \* total size below the header
      Container(EM_TAG, U32(100), 16),               \* total size past the blob
      Container(EM_TAG, <<\hffff, \hffff>>, 70),     \* offset + size wraps
      Container(EM_TAG, U32(8), 4),                  \* blob ends inside the header
      Container(EM_TAG, U32(8), 2) }                 \* blob ends inside the tag

Blobs ==
    {<<>>} \cup Chain1 \cup Chain2
    \cup {a \o b : a \in {<<>>} \cup Chain1, b \in BadPieces}

\* what the memory behind the blob may hold
BeyondBytes == {0, 255}

\* inputs of btstack_crc32
CrcBytes == {0, \h31, \h80, \hff}

RECURSIVE Strings(_)
Strings(n) ==
    IF n = 0 THEN {<<>>}
    ELSE LET shorter == Strings(n - 1)
         IN  shorter \cup {Append(s, b) : s \in shorter, b \in CrcBytes}

Digits123456789 == <<\h31, \h32, \h33, \h34, \h35, \h36, \h37, \h38, \h39>>

CrcInputs == Strings(MaxCrcLen) \cup {Digits123456789}

(***************************************************************************)
(* State after program start: the statics are zero, the caller's buffer    *)
(* is zeroed.                                                              *)
(***************************************************************************)
InitUpload(blob) ==
    /\ container_blob_data = blob
    /\ container_blob_size = U32(Len(blob))
    /\ container_blob_offset = U32(0)
    /\ container_end = U32(0)
    /\ patch_sequence_number = 0
    /\ em_cpu_reset_sent = 0
    /\ upload_state = "UPLOAD_IDLE"
    /\ hci_cmd_buffer = [i \in 1..CmdBufferLen |-> 0]
    /\ result = "NONE"
    /\ trace = <<>>
    /\ fresh = <<>>

Init ==
    /\ \E blob \in Blobs : InitUpload(blob)
    /\ mem_beyond \in BeyondBytes
    /\ crc_buf = <<>>
    /\ crc_out = <<>>
    /\ baudrate = <<>>
    /\ cmd_before = <<>>

(***************************************************************************)
(* chipset_init                                                            *)
(***************************************************************************)
\* what the calls of a run returned and wrote
Outcomes(tr) == [i \in 1..Len(tr) |-> [result |-> tr[i].result, cmd |-> tr[i].cmd]]

chipset_init_keep_phase ==
    /\ container_blob_offset' = U32(0)
    /\ em_cpu_reset_sent' = 0
    /\ result' = "NONE"
    /\ trace' = <<>>
    /\ fresh' = IF fresh = <<>> THEN Outcomes(trace) ELSE fresh
    /\ UNCHANGED <<container_blob_data, container_blob_size, mem_beyond,
                   container_end, patch_sequence_number, hci_cmd_buffer,
                   upload_state>>
    /\ UNCHANGED crcVars
    /\ UNCHANGED baudVars

\* a new run begins; the calls of the first run that made any are kept in fresh
chipset_init ==
    /\ container_blob_offset' = U32(0)
    /\ em_cpu_reset_sent' = 0
    /\ upload_state' = "UPLOAD_IDLE"
    /\ result' = "NONE"
    /\ trace' = <<>>
    /\ fresh' = IF fresh = <<>> THEN Outcomes(trace) ELSE fresh
    /\ UNCHANGED <<container_blob_data, container_blob_size, mem_beyond,
                   container_end, patch_sequence_number, hci_cmd_buffer>>
    /\ UNCHANGED crcVars
    /\ UNCHANGED baudVars

(***************************************************************************)
(* chipset_next_command                                                    *)
(***************************************************************************)
\* the indexes of container_blob_data that a read of n bytes at pos touches
ReadIdx(pos, n) == {pos + k : k \in 0..(n - 1)}

\* the call returns res after writing the bytes cmd at hci_cmd_buffer[0],
\* having read container_blob_data at the indexes reads (cmd is taken by
\* value); the record keeps the cursor and the phase the call was entered
\* with and the container_end it leaves
Return(res, cmd, reads) ==
    \E bytes \in {cmd} :
        /\ result' = res
        /\ hci_cmd_buffer' = Store(hci_cmd_buffer, 0, bytes)
        /\ trace' = IF Len(trace) < MaxTrace
                    THEN Append(trace, [result |-> res, cmd |-> bytes,
                                        pos |-> container_blob_offset,
                                        state |-> upload_state,
                                        end |-> container_end',
                                        reads |-> reads])
                    ELSE trace

StartBytes_60(end, offset) == Trunc16(btstack_min(U32(StartMax + 1), Sub32(end, offset)))

StartBytes_58(end, offset) == Trunc16(btstack_min(U32(ContinueMax), Sub32(end, offset)))

\* bytes_to_upload = btstack_min(59, container_end - container_blob_offset)
StartBytes(end, offset) == Trunc16(btstack_min(U32(StartMax), Sub32(end, offset)))

ContinueBytes_59(end, offset) == Trunc16(btstack_min(U32(StartMax), Sub32(end, offset)))

\* bytes_to_upload = btstack_min(58, container_end - container_blob_offset)
ContinueBytes(end, offset) == Trunc16(btstack_min(U32(ContinueMax), Sub32(end, offset)))

NextSequenceNumber_stuck(seq) == seq

\* patch_sequence_number++
NextSequenceNumber(seq) == (seq + 1) % W16

StartGoesActive_le(offset, end) == Le32(offset, end)

\* if (container_blob_offset < container_end) after a Start frame
StartGoesActive(offset, end) == Lt32(offset, end)

ContinueGoesIdle_always(offset, end) == TRUE

ContinueGoesIdle_gt(offset, end) == Lt32(end, offset)

\* if (container_blob_offset >= container_end) after a Continue frame
ContinueGoesIdle(offset, end) == ~Lt32(offset, end)

\* crc = btstack_crc32(&container_blob_data[container_blob_offset], bytes_to_upload)
\* of the Start frame
StartCrc(pos, n) == btstack_crc32(BlobBytes(pos, n), n)

ContinueCrc_advanced(pos, n) == btstack_crc32(BlobBytes(pos + n, n), n)

\* crc = btstack_crc32(&container_blob_data[container_blob_offset], bytes_to_upload)
\* of the Continue frame
ContinueCrc(pos, n) == btstack_crc32(BlobBytes(pos, n), n)

Advance_capacity(offset, n) == Add32(offset, U32(StartMax))

\* container_blob_offset += bytes_to_upload
Advance(offset, n) == Add32(offset, U32(n))

\* opcode, length byte, marker 0, crc, data
StartFrame(crc, data, n) ==
    LE16(HCI_OPCODE_EM_WRITE_PATCH_START) \o <<(5 + n) % 256>> \o <<0>>
    \o LE32(crc) \o data

\* opcode, length byte, sequence number, crc, data
ContinueFrame(seq, crc, data, n) ==
    LE16(HCI_OPCODE_EM_WRITE_PATCH_CONTINUE) \o <<(6 + n) % 256>> \o LE16(seq)
    \o LE32(crc) \o data

ResetFrame == LE16(HCI_OPCODE_EM_CPU_RESET) \o <<0>>

SendReset_forget ==
    /\ ~Lt32(container_blob_offset, container_blob_size)
    /\ em_cpu_reset_sent = 0
    /\ UNCHANGED <<container_blob_data, container_blob_size, mem_beyond,
                   container_blob_offset, container_end, patch_sequence_number,
                   em_cpu_reset_sent, upload_state>>
    /\ Return("VALID_COMMAND", ResetFrame, {})
    /\ UNCHANGED fresh
    /\ UNCHANGED crcVars
    /\ UNCHANGED baudVars

SendReset ==
    /\ ~Lt32(container_blob_offset, container_blob_size)
    /\ em_cpu_reset_sent = 0
    /\ em_cpu_reset_sent' = 1
    /\ UNCHANGED <<container_blob_data, container_blob_size, mem_beyond,
                   container_blob_offset, container_end, patch_sequence_number,
                   upload_state>>
    /\ Return("VALID_COMMAND", ResetFrame, {})
    /\ UNCHANGED fresh
    /\ UNCHANGED crcVars
    /\ UNCHANGED baudVars

ReportDone_rearm ==
    /\ ~Lt32(container_blob_offset, container_blob_size)
    /\ em_cpu_reset_sent # 0
    /\ em_cpu_reset_sent' = 0
    /\ UNCHANGED <<container_blob_data, container_blob_size, mem_beyond,
                   container_blob_offset, container_end, patch_sequence_number,
                   upload_state>>
    /\ Return("DONE", <<>>, {})
    /\ UNCHANGED fresh
    /\ UNCHANGED crcVars
    /\ UNCHANGED baudVars

ReportDone ==
    /\ ~Lt32(container_blob_offset, container_blob_size)
    /\ em_cpu_reset_sent # 0
    /\ UNCHANGED <<container_blob_data, container_blob_size, mem_beyond,
                   container_blob_offset, container_end, patch_sequence_number,
                   em_cpu_reset_sent, upload_state>>
    /\ Return("DONE", <<>>, {})
    /\ UNCHANGED fresh
    /\ UNCHANGED crcVars
    /\ UNCHANGED baudVars

TagMismatch_skip ==
    /\ Lt32(container_blob_offset, container_blob_size)
    /\ upload_state = "UPLOAD_IDLE"
    /\ little_endian_read_32(Index(container_blob_offset)) # EM_TAG
    /\ container_blob_offset' = Add32(container_blob_offset, U32(4))
    /\ UNCHANGED <<container_blob_data, container_blob_size, mem_beyond,
                   container_end, patch_sequence_number,
                   em_cpu_reset_sent, upload_state>>
    /\ Return("DONE", <<>>, ReadIdx(Index(container_blob_offset), 4))
    /\ UNCHANGED fresh
    /\ UNCHANGED crcVars
    /\ UNCHANGED baudVars

TagMismatch ==
    /\ Lt32(container_blob_offset, container_blob_size)
    /\ upload_state = "UPLOAD_IDLE"
    /\ little_endian_read_32(Index(container_blob_offset)) # EM_TAG
    /\ UNCHANGED <<container_blob_data, container_blob_size, mem_beyond,
                   container_blob_offset, container_end, patch_sequence_number,
                   em_cpu_reset_sent, upload_state>>
    /\ Return("DONE", <<>>, ReadIdx(Index(container_blob_offset), 4))
    /\ UNCHANGED fresh
    /\ UNCHANGED crcVars
    /\ UNCHANGED baudVars

\* the locals of the C function are bound by value, in the order the code
\* assigns them
SendStart ==
    /\ Lt32(container_blob_offset, container_blob_size)
    /\ upload_state = "UPLOAD_IDLE"
    /\ little_endian_read_32(Index(container_blob_offset)) = EM_TAG
    /\ \E end \in {Add32(container_blob_offset,
                          little_endian_read_32(Index(Add32(container_blob_offset, U32(4)))))} :
       \E bytes_to_upload \in {StartBytes(end, container_blob_offset)} :
       \E crc \in {StartCrc(Index(container_blob_offset), bytes_to_upload)} :
       \E data \in {BlobBytes(Index(container_blob_offset), bytes_to_upload)} :
       \E offset \in {Advance(container_blob_offset, bytes_to_upload)} :
           /\ container_end' = end
           /\ patch_sequence_number' = 1
           /\ container_blob_offset' = offset
           /\ upload_state' = IF StartGoesActive(offset, end) THEN "UPLOAD_ACTIVE"
                               ELSE upload_state
           /\ Return("VALID_COMMAND", StartFrame(crc, data, bytes_to_upload),
                     ReadIdx(Index(container_blob_offset), 4)
                     \cup ReadIdx(Index(Add32(container_blob_offset, U32(4))), 4)
                     \cup ReadIdx(Index(container_blob_offset), bytes_to_upload))
    /\ UNCHANGED <<container_blob_data, container_blob_size, mem_beyond,
                   em_cpu_reset_sent>>
    /\ UNCHANGED fresh
    /\ UNCHANGED crcVars
    /\ UNCHANGED baudVars

SendContinue ==
    /\ Lt32(container_blob_offset, container_blob_size)
    /\ upload_state = "UPLOAD_ACTIVE"
    /\ UNCHANGED container_end
    /\ \E bytes_to_upload \in {ContinueBytes(container_end, container_blob_offset)} :
       \E crc \in {ContinueCrc(Index(container_blob_offset), bytes_to_upload)} :
       \E data \in {BlobBytes(Index(container_blob_offset), bytes_to_upload)} :
       \E offset \in {Advance(container_blob_offset, bytes_to_upload)} :
           /\ patch_sequence_number' = NextSequenceNumber(patch_sequence_number)
           /\ container_blob_offset' = offset
           /\ upload_state' = IF ContinueGoesIdle(offset, container_end) THEN "UPLOAD_IDLE"
                               ELSE upload_state
           /\ Return("VALID_COMMAND",
                     ContinueFrame(patch_sequence_number, crc, data,
                                   bytes_to_upload),
                     ReadIdx(Index(container_blob_offset), bytes_to_upload))
    /\ UNCHANGED <<container_blob_data, container_blob_size, mem_beyond,
                   em_cpu_reset_sent>>
    /\ UNCHANGED fresh
    /\ UNCHANGED crcVars
    /\ UNCHANGED baudVars

chipset_next_command ==
    \/ SendReset
    \/ ReportDone
    \/ TagMismatch
    \/ SendStart
    \/ SendContinue

Next == chipset_init \/ chipset_next_command

Spec == Init /\ [][Next]_vars

\* one run: the driver calls chipset_next_command again after every command
\* complete event, with no chipset_init in between
FairSpec ==
    Init /\ [][chipset_next_command]_vars /\ WF_vars(chipset_next_command)

(***************************************************************************)
(* btstack_crc32 called on its own, on the inputs of CrcInputs.            *)
(***************************************************************************)
InitCrc ==
    /\ InitUpload(<<>>)
    /\ mem_beyond = 0
    /\ crc_buf \in CrcInputs
    /\ crc_out = <<>>
    /\ baudrate = <<>>
    /\ cmd_before = <<>>

\* the call btstack_crc32(crc_buf, Len(crc_buf))
CrcCall ==
    /\ crc_out = <<>>
    /\ crc_out' = btstack_crc32(crc_buf, Len(crc_buf))
    /\ UNCHANGED crc_buf
    /\ UNCHANGED uploadVars
    /\ UNCHANGED baudVars

\* the caller picks the next input
CrcNewInput ==
    /\ crc_out # <<>>
    /\ crc_buf' \in CrcInputs
    /\ crc_out' = <<>>
    /\ UNCHANGED uploadVars
    /\ UNCHANGED baudVars

NextCrc == CrcCall \/ CrcNewInput

SpecCrc == InitCrc /\ [][NextCrc]_vars

(***************************************************************************)
(* The command builders chipset_set_baudrate_command and                   *)
(* chipset_set_bd_addr_command, called on the driver's command buffer.     *)
(***************************************************************************)
\* OPCODE(OGF_VENDOR, ocf) = ocf | 0x3f << 10
OPCODE_VENDOR(ocf) == \hFC00 + ocf

baudrates ==
    << U32(0), U32(0), U32(0), U32(9600), U32(14400), U32(19200), U32(28800),
       U32(38400), U32(57600), U32(76800), U32(115200), U32(230400),
       U32(460800), U32(921600), U32(1843200) >>

\* rates the model calls chipset_set_baudrate_command with: the table's,
\* and rates the table does not hold
OtherRates == {U32(1), U32(2400), U32(9601), U32(115201), U32(3686400), <<\hffff, \hffff>>}

BaudInputs == {baudrates[k] : k \in 1..Len(baudrates)} \cup OtherRates

\* device addresses the model calls chipset_set_bd_addr_command with
BdAddrs == {<<0, 0, 0, 0, 0, 0>>, <<\h00, \h1b, \hdc, \h07, \h32, \hef>>}

\* the for loop entered with i: the values of i and found when it is left
RECURSIVE baudrate_lookup(_, _)
baudrate_lookup(i, rate) ==
    IF ~(i < Len(baudrates)) THEN [i |-> i, found |-> 0]
    ELSE IF baudrates[i + 1] = rate THEN [i |-> i, found |-> i]
    ELSE baudrate_lookup(i + 1, rate)

chipset_set_baudrate_command ==
    /\ \E rate \in BaudInputs :
       \E loop \in {baudrate_lookup(0, rate)} :
           /\ baudrate' = rate
           /\ hci_cmd_buffer' =
                  IF loop.found = 0 THEN hci_cmd_buffer
                  ELSE Store(hci_cmd_buffer, 0,
                             LE16(OPCODE_VENDOR(7)) \o <<1>> \o <<loop.i % 256>>)
    /\ cmd_before' = hci_cmd_buffer
    /\ UNCHANGED <<container_blob_data, container_blob_size, mem_beyond,
                   container_blob_offset, container_end, patch_sequence_number,
                   em_cpu_reset_sent, upload_state, result, trace, fresh>>
    /\ UNCHANGED crcVars

\* reverse_bd_addr
Reversed(addr) == [k \in 1..Len(addr) |-> addr[Len(addr) + 1 - k]]

chipset_set_bd_addr_command ==
    /\ \E addr \in BdAddrs :
           hci_cmd_buffer' = Store(hci_cmd_buffer, 0,
                                   LE16(OPCODE_VENDOR(2)) \o <<6>> \o Reversed(addr))
    /\ baudrate' = <<>>
    /\ cmd_before' = hci_cmd_buffer
    /\ UNCHANGED <<container_blob_data, container_blob_size, mem_beyond,
                   container_blob_offset, container_end, patch_sequence_number,
                   em_cpu_reset_sent, upload_state, result, trace, fresh>>
    /\ UNCHANGED crcVars

InitBaud ==
    /\ InitUpload(<<>>)
    /\ mem_beyond = 0
    /\ crc_buf = <<>>
    /\ crc_out = <<>>
    /\ baudrate = <<>>
    /\ cmd_before = <<>>

NextBaud == chipset_set_baudrate_command \/ chipset_set_bd_addr_command

SpecBaud == InitBaud /\ [][NextBaud]_vars

(***************************************************************************)
(* Reading the recorded calls.                                             *)
(***************************************************************************)
IsStart(e) ==
    Len(e.cmd) >= 8 /\ SubSeq(e.cmd, 1, 2) = LE16(HCI_OPCODE_EM_WRITE_PATCH_START)

IsContinue(e) ==
    Len(e.cmd) >= 9 /\ SubSeq(e.cmd, 1, 2) = LE16(HCI_OPCODE_EM_WRITE_PATCH_CONTINUE)

IsReset(e) == e.cmd = LE16(HCI_OPCODE_EM_CPU_RESET) \o <<0>>

NoCommand(e) == e.cmd = <<>>

\* data bytes carried by a frame
Chunk(e) ==
    IF IsStart(e) THEN Len(e.cmd) - 8
    ELSE IF IsContinue(e) THEN Len(e.cmd) - 9
    ELSE 0

\* sequence number field of a Continue frame
SeqField(e) == e.cmd[4] + (256 * e.cmd[5])

RECURSIVE SumChunks(_)
SumChunks(tr) == IF tr = <<>> THEN 0 ELSE Chunk(Head(tr)) + SumChunks(Tail(tr))

\* the program state a call may change
progVars == <<container_blob_offset, container_end, patch_sequence_number,
              upload_state, em_cpu_reset_sent, hci_cmd_buffer>>

\* the cursor is at a container boundary inside the blob and the tag there is wrong
Mismatched ==
    /\ Lt32(container_blob_offset, container_blob_size)
    /\ upload_state = "UPLOAD_IDLE"
    /\ little_endian_read_32(Index(container_blob_offset)) # EM_TAG

(***************************************************************************)
(* C1                                                                      *)
(***************************************************************************)
\* the blob is exactly one container: valid tag, total size = blob length
SingleContainer ==
    /\ Len(container_blob_data) >= 8
    /\ little_endian_read_32(0) = EM_TAG
    /\ little_endian_read_32(4) = container_blob_size

\* ceil(max(0, x - 59) / 58)
ContinueCount(x) == IF x > 59 THEN (x - 59 + 57) \div 58 ELSE 0

\* the recorded calls are a prefix of: Start, ContinueCount(x) Continue,
\* Reset, Done, Done, ...; once the Reset is out the chunks sum to x
RunOf(x) ==
    /\ \A i \in 1..Len(trace) :
          IF i = 1
          THEN IsStart(trace[i]) /\ Chunk(trace[i]) <= 59
               /\ trace[i].result = "VALID_COMMAND"
          ELSE IF i <= 1 + ContinueCount(x)
          THEN IsContinue(trace[i]) /\ trace[i].result = "VALID_COMMAND"
          ELSE IF i = 2 + ContinueCount(x)
          THEN IsReset(trace[i]) /\ trace[i].result = "VALID_COMMAND"
          ELSE NoCommand(trace[i]) /\ trace[i].result = "DONE"
    /\ Len(trace) >= 2 + ContinueCount(x) => SumChunks(trace) = x

\* C1 as claimed: for a blob of one container with payload length P (the
\* bytes behind the 8-byte header), the calls produce one Start frame with a
\* chunk of at most 59, ceil(max(0, P - 59) / 58) Continue frames, one Reset
\* frame, then Done, and the chunk sizes sum to P.
C1_PayloadRun == SingleContainer => RunOf(Len(container_blob_data) - 8)

\* C1 amended: the same with the container's total size T = P + 8 (header
\* included, equal to the blob length) in place of P: ceil(max(0, T - 59) / 58)
\* Continue frames, and the chunk sizes sum to T.
C1_TotalSizeRun == SingleContainer => RunOf(Len(container_blob_data))

\* a single container run to its Done, with two Continue frames
C1_Witness ==
    /\ SingleContainer
    /\ ContinueCount(Len(container_blob_data)) = 2
    /\ Len(trace) = 5
    /\ trace[5].result = "DONE"

(***************************************************************************)
(* C2                                                                      *)
(***************************************************************************)
\* C2: the k-th Continue frame after a Start frame carries sequence number
\* k: the first Continue frame of every container carries 1, each later one
\* carries one more than the Continue frame before it.
C2_SequenceNumbers ==
    \A i \in 1..Len(trace) :
        IsContinue(trace[i]) =>
            /\ i > 1
            /\ \/ IsStart(trace[i - 1]) /\ SeqField(trace[i]) = 1
               \/ IsContinue(trace[i - 1]) /\ SeqField(trace[i]) = SeqField(trace[i - 1]) + 1

\* a container with Continue frames 1 and 2, then the next container's Continue
C2_Witness ==
    /\ Len(trace) >= 5
    /\ IsStart(trace[1]) /\ IsContinue(trace[2]) /\ IsContinue(trace[3])
    /\ SeqField(trace[3]) = 2
    /\ IsStart(trace[4]) /\ IsContinue(trace[5])
    /\ SeqField(trace[5]) = 1

(***************************************************************************)
(* C3                                                                      *)
(***************************************************************************)
\* C3: a call made between containers, inside the blob, at a wrong tag
\* returns without a command and changes nothing, so the next call finds
\* the same wrong tag: no later call of the run produces a command.
C3_MismatchHalts ==
    [][(Mismatched /\ chipset_next_command) =>
            /\ result' = "DONE"
            /\ UNCHANGED progVars
            /\ (Len(trace') > Len(trace) => NoCommand(trace'[Len(trace')]))
            /\ Mismatched']_vars

\* a wrong tag at the second container, and two calls made there
C3_Witness ==
    /\ Mismatched
    /\ Len(trace) = 3
    /\ IsStart(trace[1])
    /\ NoCommand(trace[2]) /\ NoCommand(trace[3])
    /\ result = "DONE"

(***************************************************************************)
(* C4                                                                      *)
(***************************************************************************)
\* what a call returns once the upload is complete
SuccessResult == "DONE"

\* C4: the value returned at a wrong tag differs from the value returned
\* after a complete upload.
C4_MismatchDistinct ==
    (Mismatched /\ Len(trace) > 0 /\ NoCommand(trace[Len(trace)])) => result # SuccessResult

(***************************************************************************)
(* C5                                                                      *)
(***************************************************************************)
\* C5: a call that follows a call that returned Done returns Done and
\* leaves cursor, container_end, sequence number, phase, reset flag and
\* output buffer as they were.
C5_DoneIsNoOp ==
    [][(result = "DONE" /\ chipset_next_command) =>
            (result' = "DONE" /\ UNCHANGED progVars)]_vars

\* Done after the Reset, and one more call made
C5_Witness ==
    /\ em_cpu_reset_sent = 1
    /\ Len(trace) >= 4
    /\ IsStart(trace[1])
    /\ IsReset(trace[Len(trace) - 2])
    /\ trace[Len(trace) - 1].result = "DONE"
    /\ trace[Len(trace)].result = "DONE"

(***************************************************************************)
(* C6                                                                      *)
(***************************************************************************)
\* C6: the cursor is at most the blob length, and no recorded call was
\* entered with a cursor below that of the call before it, nor left the
\* cursor below the one it was entered with.
C6_CursorInBlob ==
    /\ Le32(container_blob_offset, container_blob_size)
    /\ \A i \in 1..Len(trace) - 1 : Le32(trace[i].pos, trace[i + 1].pos)
    /\ Len(trace) > 0 => Le32(trace[Len(trace)].pos, container_blob_offset)

(***************************************************************************)
(* C7                                                                      *)
(***************************************************************************)
\* C7: a Reset frame is emitted by a call entered with cursor >= blob
\* length, it is the only Reset frame of the run, and every call after it
\* returns Done without a command; the reset flag is set only with the
\* cursor at or past the end of the blob.
C7_ResetOnce ==
    /\ \A i \in 1..Len(trace) :
          IsReset(trace[i]) =>
              /\ Le32(container_blob_size, trace[i].pos)
              /\ \A j \in 1..Len(trace) : IsReset(trace[j]) => j = i
              /\ \A j \in (i + 1)..Len(trace) :
                    NoCommand(trace[j]) /\ trace[j].result = "DONE"
    /\ em_cpu_reset_sent # 0 => Le32(container_blob_size, container_blob_offset)

\* Start, Continue, Reset, Done, and one more call
C7_Witness ==
    /\ Len(trace) = 5
    /\ IsStart(trace[1]) /\ IsContinue(trace[2]) /\ IsReset(trace[3])
    /\ trace[4].result = "DONE" /\ trace[5].result = "DONE"

(***************************************************************************)
(* C8                                                                      *)
(***************************************************************************)
\* C8: unless the cursor comes to a container boundary with a wrong tag,
\* the calls eventually emit the Reset frame and then return Done.
C8_Terminates ==
    <>(Mismatched \/ (em_cpu_reset_sent # 0 /\ result = "DONE"))

(***************************************************************************)
(* C9                                                                      *)
(***************************************************************************)
\* the total-size field of the container at pos
SizeAt(pos) == little_endian_read_32(Index(Add32(pos, U32(4))))

\* C9: a Start frame of a container whose total size is at most 59 carries
\* the whole container, and the call after it emits no Continue frame: it
\* emits the Start frame of the container that begins where this one ends,
\* or the Reset frame, or (at a wrong tag) no command.
C9_NoContinue ==
    \A i \in 1..Len(trace) :
        (IsStart(trace[i]) /\ Le32(SizeAt(trace[i].pos), U32(StartMax))) =>
            /\ Chunk(trace[i]) = Index(SizeAt(trace[i].pos))
            /\ i < Len(trace) =>
                  \/ /\ IsStart(trace[i + 1])
                     /\ trace[i + 1].pos = Add32(trace[i].pos, SizeAt(trace[i].pos))
                  \/ IsReset(trace[i + 1])
                  \/ NoCommand(trace[i + 1]) /\ trace[i + 1].result = "DONE"

\* two containers of at most 59 bytes: Start, Start, Reset
C9_Witness ==
    /\ Len(trace) = 3
    /\ IsStart(trace[1]) /\ Le32(SizeAt(trace[1].pos), U32(StartMax))
    /\ IsStart(trace[2]) /\ Le32(SizeAt(trace[2].pos), U32(StartMax))
    /\ Chunk(trace[2]) = StartMax
    /\ IsReset(trace[3])

(***************************************************************************)
(* C10                                                                     *)
(***************************************************************************)
\* 0xEDB88320
CRC32_POLY == <<\hedb8, \h8320>>

\* a >> 1
Shr1(a) == <<a[1] \div 2, (a[2] \div 2) + (32768 * (a[1] % 2))>>

\* one bit of the reflected CRC-32: shift right, xor the polynomial if a 1 fell out
RefBit == [reg \in UInt32 |-> IF reg[2] % 2 = 1 THEN Xor32(Shr1(reg), CRC32_POLY) ELSE Shr1(reg)]

\* one byte: xor it into the low byte, then eight bits
RefByte ==
    [reg \in UInt32, b \in 0..255 |->
        RefBit[RefBit[RefBit[RefBit[RefBit[RefBit[RefBit[RefBit[Xor32(reg, <<0, b>>)]]]]]]]]]

\* the standard CRC-32: register 0xFFFFFFFF, bit by bit, final complement
ReflectedCrc32(buf) ==
    LET reg[pos \in 0..Len(buf)] ==
            IF pos = 0 THEN <<\hffff, \hffff>>
            ELSE RefByte[reg[pos - 1], buf[pos]]
    IN  Not32(reg[Len(buf)])

\* C10: btstack_crc32 returns the bit-by-bit reflected CRC-32 of its input,
\* 0 for the empty input and 0xCBF43926 for "123456789".
C10_Crc32 ==
    crc_out # <<>> =>
        /\ crc_out = ReflectedCrc32(crc_buf)
        /\ crc_buf = <<>> => crc_out = <<0, 0>>
        /\ crc_buf = Digits123456789 => crc_out = <<\hcbf4, \h3926>>

\* the call on "123456789" has returned
C10_Witness == crc_buf = Digits123456789 /\ crc_out = <<\hcbf4, \h3926>>

(***************************************************************************)
(* C11                                                                     *)
(***************************************************************************)
InTable(rate) == \E k \in 1..Len(baudrates) : baudrates[k] = rate

\* the last builder call was chipset_set_baudrate_command
BaudCalled == baudrate # <<>>

\* the buffer holds a baud-rate command for rate: length byte 1 and one
\* parameter byte, an index of the table entry rate
BaudCommandFor(rate) ==
    /\ SubSeq(hci_cmd_buffer, 1, 2) = LE16(OPCODE_VENDOR(7))
    /\ hci_cmd_buffer[3] = 1
    /\ hci_cmd_buffer[4] < Len(baudrates)
    /\ baudrates[hci_cmd_buffer[4] + 1] = rate

\* C11: after chipset_set_baudrate_command with a rate of the table (0
\* included) the buffer holds a command with length byte 1 whose parameter
\* byte is an index i with baudrates[i] = rate; for 115200 the byte is 10.
C11_BaudIndex ==
    (BaudCalled /\ InTable(baudrate)) =>
        /\ BaudCommandFor(baudrate)
        /\ baudrate = U32(115200) => hci_cmd_buffer[4] = 10

(***************************************************************************)
(* C12                                                                     *)
(***************************************************************************)
\* what the caller can observe of a call that found rate in the table: the
\* function returns no value, the buffer holds the command
SuccessfulCallLeaves(rate) ==
    /\ baudrate_lookup(0, rate).found # 0
    /\ hci_cmd_buffer =
          Store(cmd_before, 0,
                LE16(OPCODE_VENDOR(7)) \o <<1>> \o <<baudrate_lookup(0, rate).i % 256>>)

\* C12: after chipset_set_baudrate_command with a rate the table does not
\* hold, every byte of the buffer is as the call found it, and what the
\* caller observes differs from what it observes after a successful call.
C12_FailureDistinct ==
    (BaudCalled /\ ~InTable(baudrate)) =>
        /\ hci_cmd_buffer = cmd_before
        /\ ~(\E rate \in BaudInputs : SuccessfulCallLeaves(rate))

(***************************************************************************)
(* C13                                                                     *)
(***************************************************************************)
\* min(cap, end - pos), the difference taken as the code takes it, in uint32_t
CappedRest(cap, end, pos) ==
    IF Lt32(U32(cap), Sub32(end, pos)) THEN cap ELSE Index(Sub32(end, pos))

\* the length byte of a frame
LengthByte(e) == e.cmd[3]

\* C13: every Start frame carries min(59, container_end - cursor) data
\* bytes and has length byte 5 + that; every Continue frame carries
\* min(58, container_end - cursor) data bytes and has length byte 6 + that,
\* cursor and container_end being those the frame is built with; no Start
\* chunk exceeds 59, no Continue chunk exceeds 58, no length byte exceeds 64.
C13_ChunkSizes ==
    \A i \in 1..Len(trace) :
        /\ IsStart(trace[i]) =>
              /\ Chunk(trace[i]) = CappedRest(59, trace[i].end, trace[i].pos)
              /\ LengthByte(trace[i]) = 5 + Chunk(trace[i])
              /\ Chunk(trace[i]) <= 59
        /\ IsContinue(trace[i]) =>
              /\ Chunk(trace[i]) = CappedRest(58, trace[i].end, trace[i].pos)
              /\ LengthByte(trace[i]) = 6 + Chunk(trace[i])
              /\ Chunk(trace[i]) <= 58
        /\ ~NoCommand(trace[i]) => LengthByte(trace[i]) <= 64

\* a full Start frame, a full Continue frame and a Continue frame of one byte
C13_Witness ==
    /\ Len(trace) >= 3
    /\ IsStart(trace[1]) /\ Chunk(trace[1]) = 59 /\ LengthByte(trace[1]) = 64
    /\ IsContinue(trace[2]) /\ Chunk(trace[2]) = 58 /\ LengthByte(trace[2]) = 64
    /\ IsContinue(trace[3]) /\ Chunk(trace[3]) = 1 /\ LengthByte(trace[3]) = 7

(***************************************************************************)
(* C14                                                                     *)
(***************************************************************************)
\* the data bytes a frame carries
FrameData(e) ==
    IF IsStart(e) THEN SubSeq(e.cmd, 9, Len(e.cmd))
    ELSE IF IsContinue(e) THEN SubSeq(e.cmd, 10, Len(e.cmd))
    ELSE <<>>

\* the four bytes of the CRC field of a frame
CrcField(e) == IF IsStart(e) THEN SubSeq(e.cmd, 5, 8) ELSE SubSeq(e.cmd, 6, 9)

\* C14: the CRC field of every Start and Continue frame is btstack_crc32 of
\* the data bytes of that frame, and these are the blob bytes from the
\* cursor the call was entered with, as many as the chunk size. (Stated of
\* the latest recorded call: every recorded call is the latest one in the
\* state it leads to.)
C14_CrcOfChunk ==
    \A i \in {Len(trace)} \ {0} :
        (IsStart(trace[i]) \/ IsContinue(trace[i])) =>
            /\ CrcField(trace[i]) =
                  LE32(btstack_crc32(FrameData(trace[i]), Chunk(trace[i])))
            /\ FrameData(trace[i]) = BlobBytes(Index(trace[i].pos), Chunk(trace[i]))

\* a Start frame and two Continue frames with data, with three different CRCs
C14_Witness ==
    /\ Len(trace) >= 3
    /\ IsStart(trace[1]) /\ IsContinue(trace[2]) /\ IsContinue(trace[3])
    /\ Chunk(trace[3]) > 0
    /\ CrcField(trace[1]) # CrcField(trace[2])
    /\ CrcField(trace[2]) # CrcField(trace[3])
    /\ CrcField(trace[1]) # CrcField(trace[3])

(***************************************************************************)
(* C15                                                                     *)
(***************************************************************************)
\* from offset on the blob is a chain of containers, each with its header
\* inside the blob, a valid tag and a total size of at least 1, that ends
\* exactly at the end of the blob
RECURSIVE ContainersFrom(_)
ContainersFrom(offset) ==
    IF offset = Len(container_blob_data) THEN TRUE
    ELSE /\ offset + 8 <= Len(container_blob_data)
         /\ little_endian_read_32(offset) = EM_TAG
         /\ Lt32(U32(0), little_endian_read_32(offset + 4))
         /\ Le32(little_endian_read_32(offset + 4),
                 U32(Len(container_blob_data) - offset))
         /\ ContainersFrom(offset + Index(little_endian_read_32(offset + 4)))

WellFormedBlob == ContainersFrom(0)

\* the data bytes of the recorded frames, in the order of the calls
RECURSIVE SentBytes(_)
SentBytes(tr) ==
    IF tr = <<>> THEN <<>>
    ELSE SentBytes(SubSeq(tr, 1, Len(tr) - 1)) \o FrameData(tr[Len(tr)])

\* a Reset frame is among the recorded calls
ResetRecorded == \E i \in 1..Len(trace) : IsReset(trace[i])

\* C15: over a well-formed blob every call's data bytes are the blob bytes
\* from the cursor it was entered with, and the next call is entered with
\* the cursor behind them, so the data bytes sent so far are the blob up to
\* the cursor, and by the Reset frame they are the whole blob.
C15_WholeBlobSent ==
    WellFormedBlob =>
        /\ \A i \in 1..Len(trace) :
              /\ FrameData(trace[i]) = BlobBytes(Index(trace[i].pos), Chunk(trace[i]))
              /\ i < Len(trace) =>
                    trace[i + 1].pos = Add32(trace[i].pos, U32(Chunk(trace[i])))
              /\ Index(trace[i].pos) = Len(SentBytes(SubSeq(trace, 1, i - 1)))
        /\ SentBytes(trace) =
              SubSeq(container_blob_data, 1, Len(SentBytes(trace)))
        /\ Len(trace) < MaxTrace =>
              Index(container_blob_offset) = Len(SentBytes(trace))
        /\ ResetRecorded => SentBytes(trace) = container_blob_data

\* two containers, the second with Continue frames, sent up to the Reset frame
C15_Witness ==
    /\ WellFormedBlob
    /\ ResetRecorded
    /\ Len(trace) >= 5
    /\ IsStart(trace[1]) /\ IsStart(trace[2]) /\ IsContinue(trace[3])
    /\ Len(container_blob_data) > StartMax + ContinueMax
    /\ SentBytes(trace) = container_blob_data

(***************************************************************************)
(* C16                                                                     *)
(***************************************************************************)
\* from offset on the blob is a finite chain of containers with valid tags:
\* each begins where the one before it ends, has the tag the code reads as
\* valid and a total size of at least 1; the last one ends at or behind the
\* end of the blob
RECURSIVE ValidTagsFrom(_)
ValidTagsFrom(offset) ==
    IF offset >= Len(container_blob_data) THEN TRUE
    ELSE /\ little_endian_read_32(offset) = EM_TAG
         /\ Lt32(U32(0), little_endian_read_32(offset + 4))
         /\ Lt32(little_endian_read_32(offset + 4), <<\h4000, 0>>)
         /\ ValidTagsFrom(offset + Index(little_endian_read_32(offset + 4)))

ValidTagChain == ValidTagsFrom(0)

\* the offsets at which the containers of such a chain start
RECURSIVE ContainerStartsFrom(_)
ContainerStartsFrom(offset) ==
    IF offset >= Len(container_blob_data) THEN {}
    ELSE {offset}
         \cup ContainerStartsFrom(offset + Index(little_endian_read_32(offset + 4)))

ContainerStarts == ContainerStartsFrom(0)

\* the call read the tag: it read the blob and built no Continue frame
TagChecked(e) == e.reads # {} /\ ~IsContinue(e)

TagChecks == {i \in 1..Len(trace) : TagChecked(trace[i])}

StartFrames == {i \in 1..Len(trace) : IsStart(trace[i])}

\* C16: over a blob that is a chain of N containers with valid tags, every
\* tag check is made at the start offset of a container, inside the blob,
\* in the phase between containers, no container start is checked twice,
\* and every check is followed by the Start frame of that container; by the
\* Reset frame there were exactly N checks and N Start frames, one at every
\* container start.
C16_TagCheckedOncePerContainer ==
    ValidTagChain =>
        /\ \A i \in TagChecks :
              /\ Index(trace[i].pos) \in ContainerStarts
              /\ Lt32(trace[i].pos, container_blob_size)
              /\ trace[i].state = "UPLOAD_IDLE"
              /\ IsStart(trace[i])
              /\ \A j \in TagChecks : trace[j].pos = trace[i].pos => j = i
        /\ StartFrames = TagChecks
        /\ ResetRecorded =>
              /\ Cardinality(TagChecks) = Cardinality(ContainerStarts)
              /\ Cardinality(StartFrames) = Cardinality(ContainerStarts)
              /\ {Index(trace[i].pos) : i \in StartFrames} = ContainerStarts

\* two containers with Continue frames sent up to the Reset frame: two checks
C16_Witness ==
    /\ ValidTagChain
    /\ ResetRecorded
    /\ Cardinality(ContainerStarts) = 2
    /\ Cardinality(TagChecks) = 2
    /\ \E i \in 1..Len(trace) : IsContinue(trace[i]) /\ SeqField(trace[i]) = 2

(***************************************************************************)
(* C17                                                                     *)
(***************************************************************************)
\* C17: whenever the phase is UPLOAD_ACTIVE the cursor is below
\* container_end; a call that builds a Start frame leaves the phase
\* UPLOAD_ACTIVE exactly when it leaves cursor < container_end, a call that
\* builds a Continue frame leaves it UPLOAD_IDLE exactly when it leaves
\* cursor >= container_end; and a Continue frame carries at least one byte.
C17_ActiveInsideContainer ==
    [][/\ upload_state' = "UPLOAD_ACTIVE" =>
             Lt32(container_blob_offset', container_end')
       /\ SendStart =>
             (upload_state' = "UPLOAD_ACTIVE"
                 <=> Lt32(container_blob_offset', container_end'))
       /\ SendContinue =>
             /\ upload_state' = "UPLOAD_IDLE"
                   <=> ~Lt32(container_blob_offset', container_end')
             /\ Lt32(container_blob_offset, container_blob_offset')
             /\ hci_cmd_buffer'[3] >= 6 + 1]_vars

\* a Start frame that left the phase UPLOAD_ACTIVE, a Continue frame that
\* kept it, and a Continue frame that brought the cursor to container_end
C17_Witness ==
    /\ Len(trace) = 3
    /\ IsStart(trace[1])
    /\ IsContinue(trace[2]) /\ trace[2].state = "UPLOAD_ACTIVE"
    /\ IsContinue(trace[3]) /\ trace[3].state = "UPLOAD_ACTIVE"
    /\ Chunk(trace[3]) = 1
    /\ upload_state = "UPLOAD_IDLE"
    /\ container_blob_offset = container_end

(***************************************************************************)
(* C18                                                                     *)
(***************************************************************************)
\* no recorded call wrote hci_cmd_buffer at an index >= n (a call writes the
\* indexes 0 .. Len(cmd) - 1), and the buffer is still zero from index n on
WritesBelow(n) ==
    /\ \A i \in 1..Len(trace) : Len(trace[i].cmd) <= n
    /\ \A k \in (n + 1)..Len(hci_cmd_buffer) : hci_cmd_buffer[k] = 0

\* C18 as claimed: no call writes the output buffer at an index >= 64.
C18_Fits64 == WritesBelow(64)

\* C18 amended: no call writes the output buffer at an index >= 67: opcode,
\* length byte and a payload of at most 64 bytes.
C18_Fits67 == WritesBelow(67)

\* a Start frame with 59 data bytes: indexes 0 .. 66 written
C18_Witness ==
    /\ Len(trace) >= 1
    /\ IsStart(trace[1])
    /\ Len(trace[1].cmd) = 67
    /\ hci_cmd_buffer[67] # 0

(***************************************************************************)
(* C19                                                                     *)
(***************************************************************************)
\* C19: the calls that follow a chipset_init return the same results and
\* write the same commands, call by call, as the calls of the fresh run over
\* the same blob, whatever state chipset_init was called in.
C19_InitRestarts ==
    \A i \in 1..Len(trace) :
        i <= Len(fresh) =>
            /\ trace[i].result = fresh[i].result
            /\ trace[i].cmd = fresh[i].cmd

\* the fresh run went through Start, Continue, Reset and Done, and the run
\* after a chipset_init did so again, entered with container_end and the
\* sequence number as the run before left them
C19_Witness ==
    /\ Len(fresh) >= 4
    /\ IsStart(fresh[1]) /\ IsContinue(fresh[2])
    /\ fresh[Len(fresh)].result = "DONE"
    /\ Len(trace) = Len(fresh)
    /\ trace[Len(trace)].result = "DONE"
    /\ container_end # U32(0)

(***************************************************************************)
(* C20                                                                     *)
(***************************************************************************)
\* C20: every index of container_blob_data that a call reads (tag bytes,
\* size bytes, chunk bytes) is below the blob length.
C20_ReadsInsideBlob ==
    \A i \in 1..Len(trace) :
        \A k \in trace[i].reads : k < Len(container_blob_data)

====
